---- MODULE Spec2Model ----
(***************************************************************************)
(* Model of databricks.labs.blueprint.wheels.Wheels: version resolution,   *)
(* the wheel build inside a temporary directory, the context-manager       *)
(* lifecycle and the two uploads.                                          *)
(*                                                                         *)
(* Strings are sequences of one-character strings, so that formatting,     *)
(* parsing, "+" membership and path arithmetic are computed, not assumed.  *)
(***************************************************************************)
EXTENDS Integers, Sequences, FiniteSets, TLC

\* ------------------------------------------------------------------ bounds
\* How many times the clock may advance by one second.
MaxTicks == 1

\* ------------------------------------------------------- character strings
DigitChars == <<"0", "1", "2", "3", "4", "5", "6", "7", "8", "9">>
Digits == {DigitChars[i] : i \in 1..10}
Letters ==
  {"a", "b", "c", "d", "e", "f", "g", "h", "i", "j", "k", "l", "m", "n", "o",
   "p", "q", "r", "s", "t", "u", "v", "w", "x", "y", "z",
   "A", "B", "C", "D", "E", "F", "G", "H", "I", "J", "K", "L", "M", "N", "O",
   "P", "Q", "R", "S", "T", "U", "V", "W", "X", "Y", "Z"}

\* Python's `c in s`.
Contains(s, c) == \E i \in 1..Len(s) : s[i] = c

\* Python's s.find(c) + 1: the 1-based index of the first c, 0 when absent.
Find(s, c) ==
  IF Contains(s, c)
  THEN CHOOSE i \in 1..Len(s) : s[i] = c /\ \A j \in 1..(i - 1) : s[j] # c
  ELSE 0

\* Python's s.rfind(c) + 1.
RFind(s, c) ==
  IF Contains(s, c)
  THEN CHOOSE i \in 1..Len(s) : s[i] = c /\ \A j \in (i + 1)..Len(s) : s[j] # c
  ELSE 0

\* The part of s before its first c (all of s when c is absent) and the part
\* after it.
Before(s, c) == IF Contains(s, c) THEN SubSeq(s, 1, Find(s, c) - 1) ELSE s
After(s, c) == IF Contains(s, c) THEN SubSeq(s, Find(s, c) + 1, Len(s)) ELSE <<>>

\* Python's s.split(c): the list of the pieces between the separators.
RECURSIVE Split(_, _)
Split(s, c) ==
  IF Contains(s, c) THEN <<Before(s, c)>> \o Split(After(s, c), c) ELSE <<s>>

\* Python's s.rstrip(c).
RECURSIVE RStrip(_, _)
RStrip(s, c) ==
  IF Len(s) > 0 /\ s[Len(s)] = c THEN RStrip(SubSeq(s, 1, Len(s) - 1), c) ELSE s

\* Python's s.endswith(t).
EndsWith(s, t) ==
  Len(s) >= Len(t) /\ SubSeq(s, Len(s) - Len(t) + 1, Len(s)) = t

DigitValue(c) == (CHOOSE i \in 1..10 : DigitChars[i] = c) - 1

\* Python's int(s) on a string of decimal digits.
RECURSIVE ParseInt(_)
ParseInt(s) ==
  IF Len(s) = 0 THEN 0
  ELSE 10 * ParseInt(SubSeq(s, 1, Len(s) - 1)) + DigitValue(s[Len(s)])

\* Python's str(n) for n >= 0 (the f-string conversion of an int).
RECURSIVE IntToStr(_)
IntToStr(n) ==
  IF n < 10 THEN <<DigitChars[n + 1]>>
  ELSE IntToStr(n \div 10) \o <<DigitChars[(n % 10) + 1]>>

\* strftime's zero-padded fields: %m %d %H %M %S are two digits wide.
Pad2(n) == <<DigitChars[(n \div 10) + 1], DigitChars[(n % 10) + 1]>>

\* ----------------------------------------------------------------- SemVer
\* databricks.sdk.mixins.compute.SemVer, as wheels.py uses it: parse() and the
\* fields major, minor, patch, pre_release.  The pattern is
\*   ^(major)\.(minor)(\.(patch))?(-(pre_release))?(\+(build))?$
\* with numeric identifiers free of leading zeros and "x" wildcards.
AlnumHyphen(s) ==
  Len(s) > 0 /\ \A i \in 1..Len(s) : s[i] \in Digits \cup Letters \cup {"-"}

AllDigits(s) == Len(s) > 0 /\ \A i \in 1..Len(s) : s[i] \in Digits

\* 0|[1-9]\d*
Numeric(s) == AllDigits(s) /\ (Len(s) = 1 \/ s[1] # "0")

\* 0|[1-9]\d*|\d*[a-zA-Z-][0-9a-zA-Z-]*
PreIdent(s) == AlnumHyphen(s) /\ (AllDigits(s) => Numeric(s))

\* The pre_release group: identifiers separated by dots.
PreReleaseParts(parts) == \A i \in 1..Len(parts) : PreIdent(parts[i])
PreRelease(s) == PreReleaseParts(Split(s, "."))

\* The build group: [0-9a-zA-Z-]+(\.[0-9a-zA-Z-]+)*
BuildParts(parts) == \A i \in 1..Len(parts) : AlnumHyphen(parts[i])
BuildMetadata(s) == BuildParts(Split(s, "."))

\* x|0|[1-9]\d* for minor and x|0|[1-9x]\d* for patch; the latter matches
\* "x1" too, on which int() raises ValueError like a failed match.
Wildcard(s) == s = <<"x">> \/ Numeric(s)
WildcardValue(s) == IF s = <<"x">> THEN 0 ELSE ParseInt(s)

NoSemVer ==
  [ok |-> FALSE, major |-> 0, minor |-> 0, patch |-> 0,
   pre_release |-> <<>>, build |-> <<>>]

\* The match of major.minor[.patch], given as nums, with the pre_release and
\* build groups; a group that did not take part is <<>>, Python's None.
MatchCore(nums, hasPre, pre, hasBuild, build) ==
  IF /\ Len(nums) \in {2, 3}
     /\ Numeric(nums[1])
     /\ Wildcard(nums[2])
     /\ (Len(nums) = 3 => Wildcard(nums[3]))
     /\ (hasPre => PreRelease(pre))
     /\ (hasBuild => BuildMetadata(build))
  THEN [ok |-> TRUE,
        major |-> ParseInt(nums[1]),
        minor |-> WildcardValue(nums[2]),
        patch |-> IF Len(nums) = 2 THEN 0 ELSE WildcardValue(nums[3]),
        pre_release |-> pre,
        build |-> build]
  ELSE NoSemVer

\* What stands before the build group: the core up to the first "-", then
\* the pre_release group.
MatchMain(main, hasBuild, build) ==
  MatchCore(Split(Before(main, "-"), "."), Contains(main, "-"),
            After(main, "-"), hasBuild, build)

\* The build group starts at the first "+".
MatchBody(body) ==
  MatchMain(Before(body, "+"), Contains(body, "+"), After(body, "+"))

\* if v[0] != 'v': v = f'v{v}';  then the pattern is matched on v[1:]
StripV(v) == IF v[1] = "v" THEN SubSeq(v, 2, Len(v)) ELSE v

\* "$" also matches just before one trailing newline
StripNewline(s) ==
  IF Len(s) > 0 /\ s[Len(s)] = "\n" THEN SubSeq(s, 1, Len(s) - 1) ELSE s

\* SemVer.parse(v)
SemVerParse(v) ==
  IF Len(v) = 0 THEN NoSemVer ELSE MatchBody(StripNewline(StripV(v)))

\* ------------------------------------------------------------------ clock
\* The clock counts the seconds of local time since 2023-11-01 00:00:00; the
\* model stays inside November 2023.
\* datetime.datetime.now().strftime("%Y%m%d%H%M%S")
strftime(now) ==
  <<"2", "0", "2", "3", "1", "1">>
    \o Pad2(1 + (now \div 86400))
    \o Pad2((now % 86400) \div 3600)
    \o Pad2((now % 3600) \div 60)
    \o Pad2(now % 60)

\* ------------------------------------------------------------------ state
VARIABLES
  attrs,             \* names of the attributes set on the Wheels instance
  released_version,  \* self._released_version
  wheels_version,    \* value of the attribute _Wheels__version (line 59)
  local_wheel,       \* self._local_wheel: file name inside the temporary directory
  remote_wheel,      \* self._remote_wheel
  remote_dir_name,   \* self._remote_dir_name
  install_folder,    \* install_state.install_folder()
  clock,             \* local time, in seconds
  git_config,        \* project_root/.git/config exists
  git_describe,      \* what `git describe --tags` exits with and prints
  root_marker,       \* content of __about__.py in the original project tree
  tmp,               \* the directory of self._tmp_dir on disk
  dbfs,              \* remote store behind ws.dbfs
  wsfs,              \* remote store behind ws.workspace
  pc,                \* where the caller's with-statement stands
  last               \* what the last step did and gave the caller

vars ==
  <<attrs, released_version, wheels_version, local_wheel,
              remote_wheel, remote_dir_name, install_folder, clock,
              git_config, git_describe, root_marker, tmp, dbfs, wsfs, pc,
              last>>

\* released_version values the caller may pass: "0.1.0" and "0.1.0+x"
ReleasedVersions ==
  { <<"0", ".", "1", ".", "0">>, <<"0", ".", "1", ".", "0", "+", "x">> }

\* install_state.install_folder() values: "/a" and ""
InstallFolders == { <<"/", "a">>, <<>> }

\* Outcomes of `git describe --tags` in a repository: no tag reachable (exit
\* 128), an exact tag "v1.2.3\n", 2 commits past the tag
\* "v1.2.9-2-g1a2b3c4\n", and a tag that is no semantic version "rel-1\n".
\* Outside a repository git exits 128 as well.
GitFails == [rc |-> 128, stdout |-> <<>>]
DescribeResults ==
  { GitFails,
    [rc |-> 0, stdout |-> <<"v", "1", ".", "2", ".", "3", "\n">>],
    [rc |-> 0, stdout |-> <<"v", "1", ".", "2", ".", "9", "-", "2", "-", "g",
                            "1", "a", "2", "b", "3", "c", "4", "\n">>],
    [rc |-> 0, stdout |-> <<"r", "e", "l", "-", "1", "\n">>] }

\* What the packaging tool may leave in the wheel directory on exit 0:
\* nothing, "p.whl", "p.whl" and "q.whl", or only "log.txt".
WheelP == <<"p", ".", "w", "h", "l">>
WheelQ == <<"q", ".", "w", "h", "l">>
LogTxt == <<"l", "o", "g", ".", "t", "x", "t">>
PipOutputs == { {}, {WheelP}, {WheelP, WheelQ}, {LogTxt} }

\* 2023-11-01 23:59:59, one second before every field of the stamp rolls over
ClockStart == 23 * 3600 + 59 * 60 + 59

\* f'__version__ = "{v}"'
MarkerLine(v) ==
  <<"_", "_", "v", "e", "r", "s", "i", "o", "n", "_", "_", " ", "=", " ", "\"">>
    \o v \o <<"\"">>

\* __about__.py as the project ships it: __version__ = "0.0.0"
OriginalMarker == MarkerLine(<<"0", ".", "0", ".", "0">>)

NoTree == [exists |-> FALSE, marker |-> <<>>]
NoDir == [exists |-> FALSE, files |-> {}, working_copy |-> NoTree]
EmptyStore == [dirs |-> {}, files |-> {}]

\* What the last step reports: the operation, the value returned or the
\* exception raised, which external commands and remote calls it made (for the
\* packaging tool the tree of each run and its exit code), whether
\* the remote path was there before an upload (existed) and whether the
\* upload changed the remote store (changed).  A step of the environment
\* reports "env".
Quiet ==
  [op |-> "", ok |-> TRUE, val |-> <<>>, exc |-> "", cause |-> "",
   git_calls |-> 0, pip_roots |-> <<>>, pip_rcs |-> <<>>, copied |-> FALSE,
   tested |-> <<>>,
   calls |-> <<>>, body_exc |-> "", existed |-> FALSE, changed |-> FALSE]

Init ==
  /\ attrs = {"_released_version"}
  /\ released_version \in ReleasedVersions
  /\ wheels_version = <<>>
  /\ local_wheel = <<>>
  /\ remote_wheel = <<>>
  /\ remote_dir_name = <<>>
  /\ install_folder \in InstallFolders
  /\ clock = ClockStart
  /\ git_config \in BOOLEAN
  /\ git_describe \in (IF git_config THEN DescribeResults ELSE {GitFails})
  /\ root_marker = OriginalMarker
  /\ tmp = NoDir
  /\ dbfs = EmptyStore
  /\ wsfs = EmptyStore
  /\ pc = "new"
  /\ last = Quiet

\* ---------------------------------------------------------------- version
\* Mutant of GitConfigExists: every project root is taken for a checkout.
GitConfigAssumed == TRUE

\* (project_root / ".git/config").exists()
GitConfigExists == git_config

\* Python's hasattr(self, name) on the instance whose attribute names are a.
hasattr(a, name) == name \in a

\* f"{new_commits}": str(None) is "None".
FormatCommits(c) == IF c.none THEN <<"N", "o", "n", "e">> ELSE c.s

\* dv.pre_release.split("-")[0] if dv.pre_release else None
NewCommits(dv) ==
  IF Len(dv.pre_release) > 0
  THEN [none |-> FALSE, s |-> Split(dv.pre_release, "-")[1]]
  ELSE [none |-> TRUE, s |-> <<>>]

\* Mutant of Compose: the patch of the tag is kept as it is.
ComposeSamePatch(dv, datestamp) ==
  IntToStr(dv.major) \o <<".">> \o IntToStr(dv.minor) \o <<".">>
    \o IntToStr(dv.patch) \o <<"+">> \o FormatCommits(NewCommits(dv))
    \o datestamp

\* Mutant of Compose: commits and timestamp are appended as a pre-release.
ComposeAsPreRelease(dv, datestamp) ==
  IntToStr(dv.major) \o <<".">> \o IntToStr(dv.minor) \o <<".">>
    \o IntToStr(dv.patch + 1) \o <<"-">> \o FormatCommits(NewCommits(dv))
    \o datestamp

\* f"{dv.major}.{dv.minor}.{bump_patch}+{new_commits}{datestamp}"
Compose(dv, datestamp) ==
  IntToStr(dv.major) \o <<".">> \o IntToStr(dv.minor) \o <<".">>
    \o IntToStr(dv.patch + 1) \o <<"+">> \o FormatCommits(NewCommits(dv))
    \o datestamp

\* Mutant of VersionRaises: a failed resolution falls back to the released
\* version.
VersionFallsBack(a, m, cause, git) ==
  [ok |-> TRUE, val |-> released_version, exc |-> "", cause |-> "",
   git_calls |-> git, attrs |-> a, memo |-> m]

\* The except branch: OSError(msg) built from the original error.
VersionRaises(a, m, cause, git) ==
  [ok |-> FALSE, val |-> <<>>, exc |-> "OSError", cause |-> cause,
   git_calls |-> git, attrs |-> a, memo |-> m]

VersionReturns(a, m, v, git) ==
  [ok |-> TRUE, val |-> v, exc |-> "", cause |-> "",
   git_calls |-> git, attrs |-> a, memo |-> m]

\* Lines 57-60: validate the composed string, keep it in self.__version, which
\* inside the class body is the attribute _Wheels__version, and return it.
Validated(a, m, semver_and_pep0440) ==
  IF ~SemVerParse(semver_and_pep0440).ok
  THEN VersionRaises(a, m, "ValueError", 1)
  ELSE VersionReturns(a \cup {"_Wheels__version"}, semver_and_pep0440,
                      semver_and_pep0440, 1)

\* Lines 49-56: from the parsed output dv of git to the composed string.
Computed(a, m, dv, now) ==
  IF ~dv.ok THEN VersionRaises(a, m, "ValueError", 1)
  ELSE Validated(a, m, Compose(dv, strftime(now)))

\* Wheels.version() on an instance with attribute names a and _Wheels__version
\* m, when the clock reads now.  hasattr() is given the literal "__version".
version(a, m, now) ==
  IF hasattr(a, "__version") THEN VersionReturns(a, m, m, 0)
  ELSE IF ~GitConfigExists THEN VersionReturns(a, m, released_version, 0)
  ELSE IF git_describe.rc # 0
    THEN VersionRaises(a, m, "CalledProcessError", 1)
  ELSE Computed(a, m, SemVerParse(git_describe.stdout), now)

\* The caller calls version() on the instance, in or out of the scope.
Version ==
  /\ \E r \in {version(attrs, wheels_version, clock)} :
       /\ attrs' = r.attrs
       /\ wheels_version' = r.memo
       /\ last' = [Quiet EXCEPT !.op = "version", !.ok = r.ok, !.val = r.val,
                                !.exc = r.exc, !.cause = r.cause,
                                !.git_calls = r.git_calls]
  /\ UNCHANGED <<released_version, local_wheel, remote_wheel,
                 remote_dir_name, install_folder, clock, git_config,
                 git_describe, root_marker, tmp, dbfs, wsfs, pc>>

\* A second Wheels instance, constructed for the same project with the same
\* released version, resolves its version and is dropped.  It starts with the
\* attributes __init__ sets and nothing stored.
VersionOfOther ==
  /\ \E r \in {version({"_released_version"}, <<>>, clock)} :
       last' = [Quiet EXCEPT !.op = "other.version", !.ok = r.ok,
                             !.val = r.val, !.exc = r.exc, !.cause = r.cause,
                             !.git_calls = r.git_calls]
  /\ UNCHANGED <<attrs, released_version, wheels_version, local_wheel,
                 remote_wheel, remote_dir_name, install_folder, clock,
                 git_config, git_describe, root_marker, tmp, dbfs, wsfs, pc>>

\* ------------------------------------------------------------ environment
\* A second of local time passes.
Tick ==
  /\ clock < ClockStart + MaxTicks
  /\ clock' = clock + 1
  /\ last' = [Quiet EXCEPT !.op = "env"]
  /\ UNCHANGED <<attrs, released_version, wheels_version, local_wheel,
                 remote_wheel, remote_dir_name, install_folder, git_config,
                 git_describe, root_marker, tmp, dbfs, wsfs, pc>>

\* Somebody commits, tags, or adds or removes the .git directory.
GitChange ==
  /\ \E c \in BOOLEAN, g \in DescribeResults :
       /\ ~c => g = GitFails
       /\ <<c, g>> # <<git_config, git_describe>>
       /\ git_config' = c
       /\ git_describe' = g
  /\ last' = [Quiet EXCEPT !.op = "env"]
  /\ UNCHANGED <<attrs, released_version, wheels_version, local_wheel,
                 remote_wheel, remote_dir_name, install_folder, clock,
                 root_marker, tmp, dbfs, wsfs, pc>>

\* Mutant of GlobWhl: the pattern "*" in place of "*.whl".
GlobAll(dir) == {f.name : f \in dir.files}

\* ------------------------------------------------------------ _build_wheel
\* Path(tmp_dir).glob("*.whl"): the names of the wheel files in the directory.
GlobWhl(dir) ==
  {f.name : f \in {g \in dir.files : EndsWith(g.name, <<".", "w", "h", "l">>)}}

\* The packaging tool, a black box: run on a tree, it exits with pip_rc and on
\* exit 0 has written the files named pip_out, built from that tree, to the
\* wheel directory.
PipWheel(dir, root, marker, pip_rc, pip_out) ==
  IF pip_rc # 0 THEN dir
  ELSE [dir EXCEPT !.files =
          @ \cup {[name |-> n, root |-> root, marker |-> marker] : n \in pip_out}]

BuildRaises(v, dir, orig, exc, cause, git, roots, copied, tested) ==
  [ok |-> FALSE, name |-> <<>>, exc |-> exc, cause |-> cause, dir |-> dir,
   root_marker |-> orig, attrs |-> v.attrs, memo |-> v.memo,
   git_calls |-> git, pip_roots |-> roots, copied |-> copied,
   tested |-> tested]

\* next(...) on the enumeration found: pick is the file the enumeration yields
\* first when it is there.
FirstWhl(found, pick) ==
  IF pick \in found THEN pick ELSE CHOOSE n \in found : TRUE

\* Line 128, on the wheel directory after as the packaging tool left it and
\* the wheel files found in it.
NextWhl(v, after, found, orig, root, git, copied, tested, pip) ==
  IF found = {}
    THEN BuildRaises(v, after, orig, "StopIteration", "", git, <<root>>,
                     copied, tested)
  ELSE [ok |-> TRUE, name |-> FirstWhl(found, pip.pick),
        exc |-> "", cause |-> "", dir |-> after, root_marker |-> orig,
        attrs |-> v.attrs, memo |-> v.memo, git_calls |-> git,
        pip_roots |-> <<root>>, copied |-> copied, tested |-> tested]

\* Mutant of PipRan: subprocess.run without check=True.
PipRanUnchecked(v, after, orig, root, git, copied, tested, pip) ==
  NextWhl(v, after, GlobWhl(after), orig, root, git, copied, tested, pip)

\* Lines 120-127: check=True turns a non-zero exit into CalledProcessError.
PipRan(v, after, orig, root, git, copied, tested, pip) ==
  IF pip.rc # 0
    THEN BuildRaises(v, after, orig, "CalledProcessError", "", git, <<root>>,
                     copied, tested)
  ELSE NextWhl(v, after, GlobWhl(after), orig, root, git, copied, tested, pip)

\* Lines 120-128: the packaging tool on project_root, then the first *.whl.
RunPip(v, dir, orig, root, marker, git, copied, tested, pip) ==
  PipRan(v, PipWheel(dir, root, marker, pip.rc, pip.out), orig, root, git,
         copied, tested, pip)

\* Mutant of NeedsWorkingCopy: the build always goes through a patched copy.
NeedsWorkingCopyAlways(v) == TRUE

\* Line 110: (project_root / ".git" / "config").exists() and
\* is_non_released_version, where is_non_released_version is "+" in v.
NeedsWorkingCopy(v) == GitConfigExists /\ Contains(v, "+")

\* Line 115: the tree that holds version_file, which is tmp_dir_path / ...
VersionFileTree == "working-copy"

\* The marker of the working copy and of the original tree once line 117 has
\* written the text written to version_file.
CopyMarker(written) ==
  IF VersionFileTree = "working-copy" THEN written ELSE root_marker

OriginalAfterWrite(written) ==
  IF VersionFileTree = "working-copy" THEN root_marker ELSE written

\* shutil.copytree(project_root, tmp_dir_path), then the write of line 117.
WithCopy(dir, written) ==
  [dir EXCEPT !.working_copy = [exists |-> TRUE, marker |-> CopyMarker(written)]]

\* Lines 116-128 once the second call of version() has returned or raised v2;
\* open("w") has truncated the file before the call.
VersionWritten(v1, v2, dir, written, pip) ==
  IF ~v2.ok
    THEN BuildRaises(v2, WithCopy(dir, written), OriginalAfterWrite(written),
                     v2.exc, v2.cause, v1.git_calls + v2.git_calls, <<>>,
                     TRUE, v1.val)
  ELSE RunPip(v2, WithCopy(dir, written), OriginalAfterWrite(written),
              "working-copy", CopyMarker(written),
              v1.git_calls + v2.git_calls, TRUE, v1.val, pip)

\* Lines 113-117: f.write(f'__version__ = "{self.version()}"')
WriteVersionFile(v1, v2, dir, pip) ==
  VersionWritten(v1, v2, dir, IF v2.ok THEN MarkerLine(v2.val) ELSE <<>>, pip)

\* Lines 109-128 once the first call of version() has returned or raised v1.
VersionTested(v1, dir, now, d, copy_ok, pip) ==
  IF ~v1.ok
    THEN BuildRaises(v1, dir, root_marker, v1.exc, v1.cause, v1.git_calls,
                     <<>>, FALSE, <<>>)
  ELSE IF NeedsWorkingCopy(v1.val)
    THEN IF ~copy_ok
           THEN BuildRaises(v1, dir, root_marker, "Error", "", v1.git_calls,
                            <<>>, FALSE, v1.val)
         ELSE WriteVersionFile(v1, version(v1.attrs, v1.memo, now + d), dir,
                               pip)
  ELSE RunPip(v1, dir, root_marker, "original", root_marker, v1.git_calls,
              FALSE, v1.val, pip)

\* Wheels._build_wheel(tmp_dir) on the fresh directory dir.  The clock reads
\* now at line 109 and now + d at line 117, after the tree was copied.
build_wheel(a, m, dir, now, d, copy_ok, pip_rc, pip_out, pick) ==
  VersionTested(version(a, m, now), dir, now, d, copy_ok,
                [rc |-> pip_rc, out |-> pip_out, pick |-> pick])

\* ---------------------------------------------------------------- __enter__
\* Mutant of dirname: the head is cut after the last slash and kept as it is.
dirname_keeps_slash(p) == SubSeq(p, 1, RFind(p, "/"))

\* posixpath.dirname's last step: the trailing slashes go unless head is
\* nothing but slashes.
StripHead(head) ==
  IF Len(head) > 0 /\ \E i \in 1..Len(head) : head[i] # "/"
  THEN RStrip(head, "/") ELSE head

\* os.path.dirname(p)
dirname(p) == StripHead(SubSeq(p, 1, RFind(p, "/")))

\* f"{install_folder}/wheels/{name}"
RemoteWheel(folder, name) ==
  folder \o <<"/", "w", "h", "e", "e", "l", "s", "/">> \o name

\* tempfile.TemporaryDirectory(): a fresh, empty directory.
FreshDir == [exists |-> TRUE, files |-> {}, working_copy |-> NoTree]

\* The with-statement calls __enter__.  An instance serves one with-statement.
Enter ==
  /\ pc = "new"
  /\ \E d \in 0..1, copy_ok \in BOOLEAN, pip_rc \in 0..1,
        pip_out \in PipOutputs, pick \in {WheelP, WheelQ} :
       /\ clock + d <= ClockStart + MaxTicks
       /\ clock' = clock + d
       /\ \E b \in {build_wheel(attrs \cup {"_tmp_dir"}, wheels_version,
                                FreshDir, clock, d, copy_ok, pip_rc, pip_out,
                                pick)} :
             /\ tmp' = b.dir
             /\ root_marker' = b.root_marker
             /\ wheels_version' = b.memo
             /\ IF b.ok
                  THEN /\ attrs' = b.attrs \cup {"_local_wheel", "_remote_wheel",
                                                "_remote_dir_name"}
                       /\ local_wheel' = b.name
                       /\ remote_wheel' = RemoteWheel(install_folder, b.name)
                       /\ remote_dir_name' =
                            dirname(RemoteWheel(install_folder, b.name))
                       /\ pc' = "body"
                  ELSE /\ attrs' = b.attrs
                       /\ UNCHANGED <<local_wheel, remote_wheel,
                                      remote_dir_name>>
                       /\ pc' = "failed"
             /\ last' = [Quiet EXCEPT !.op = "enter", !.ok = b.ok,
                                      !.exc = b.exc, !.cause = b.cause,
                                      !.git_calls = b.git_calls,
                                      !.pip_roots = b.pip_roots,
                                      !.pip_rcs = [i \in 1..Len(b.pip_roots)
                                                     |-> pip_rc],
                                      !.copied = b.copied,
                                      !.tested = b.tested]
  /\ UNCHANGED <<released_version, install_folder, git_config, git_describe,
                 dbfs, wsfs>>

\* ----------------------------------------------------------------- __exit__
\* self._tmp_dir.cleanup(): the recursive deletion either removes the
\* directory and all in it, or fails with an OSError and leaves the directory
\* behind (here: with what it held).
cleanup(dir, rm_ok) ==
  IF rm_ok THEN [exc |-> "", dir |-> NoDir]
  ELSE [exc |-> "OSError", dir |-> dir]

\* __exit__ has no except and no return: cleanup's error goes out, and the
\* result is None, which is falsy.
AfterCleanup(c) == [exc |-> c.exc, suppress |-> FALSE, dir |-> c.dir]

\* Mutant of exit: __exit__ forgets the cleanup.
exit_without_cleanup(dir, rm_ok) ==
  [exc |-> "", suppress |-> FALSE, dir |-> dir]

\* Wheels.__exit__(exc_type, exc_value, traceback)
exit(dir, rm_ok) == AfterCleanup(cleanup(dir, rm_ok))

\* The exception the with-statement leaves the caller with: the one __exit__
\* raised, else the body's unless __exit__ returned a true value.
Propagated(body_exc, x) ==
  IF x.exc # "" THEN x.exc
  ELSE IF x.suppress THEN ""
  ELSE body_exc

\* What the caller of the with-statement sees.
ExitReport(body_exc, exc) ==
  [Quiet EXCEPT !.op = "exit", !.ok = (exc = ""), !.exc = exc,
                !.body_exc = body_exc]

\* The body of the with-statement ends, normally or by raising BodyError, and
\* the with-statement calls __exit__.
Exit ==
  /\ pc = "body"
  /\ \E body_exc \in {"", "BodyError"}, rm_ok \in BOOLEAN :
       \E x \in {exit(tmp, rm_ok)} :
          /\ tmp' = x.dir
          /\ last' = ExitReport(body_exc, Propagated(body_exc, x))
  /\ pc' = "exited"
  /\ UNCHANGED <<attrs, released_version, wheels_version, local_wheel,
                 remote_wheel, remote_dir_name, install_folder, clock,
                 git_config, git_describe, root_marker, dbfs, wsfs>>

\* ------------------------------------------------------------------ uploads
\* The storage client's mkdirs(path): create if absent.
mkdirs(store, path) == [store EXCEPT !.dirs = @ \cup {path}]

Exists(store, path) == \E f \in store.files : f.path = path

\* The storage client's upload(path, f, overwrite, format): the file at path
\* becomes f's content; without overwrite an existing file is an error.
upload(store, path, content, overwrite, format) ==
  IF ~overwrite /\ Exists(store, path)
  THEN [ok |-> FALSE, store |-> store]
  ELSE [ok |-> TRUE,
        store |-> [store EXCEPT !.files =
                     {f \in @ : f.path # path}
                       \cup {[path |-> path, content |-> content,
                              format |-> format]}]]

\* self._local_wheel.open("rb"): the exception it raises, "" when it opens.
OpenLocalWheel ==
  IF ~hasattr(attrs, "_local_wheel") THEN "AttributeError"
  ELSE IF ~tmp.exists \/ ~\E f \in tmp.files : f.name = local_wheel
    THEN "FileNotFoundError"
  ELSE ""

LocalWheelContent ==
  LET f == CHOOSE g \in tmp.files : g.name = local_wheel
  IN [root |-> f.root, marker |-> f.marker]

Call(backend, method, path, overwrite) ==
  [backend |-> backend, method |-> method, path |-> path,
   overwrite |-> overwrite]

\* Mutant of Overwrite: the uploads are issued without overwrite.
OverwriteOff == FALSE

\* Lines 85 and 92: overwrite=True
Overwrite == TRUE

\* Mutant of upload_to: the upload is issued without mkdirs before it.
upload_without_mkdirs(store, backend, format) ==
  IF OpenLocalWheel # ""
    THEN [ok |-> FALSE, val |-> <<>>, exc |-> OpenLocalWheel, store |-> store,
          calls |-> <<>>]
  ELSE [ok |-> TRUE, val |-> remote_wheel, exc |-> "",
        store |-> upload(store, remote_wheel, LocalWheelContent, Overwrite,
                         format).store,
        calls |-> <<Call(backend, "upload", remote_wheel, Overwrite)>>]

\* Mutant of upload_to: the remote directory is made before the local wheel
\* is opened.
mkdirs_before_open(store, backend, format) ==
  IF OpenLocalWheel # ""
    THEN [ok |-> FALSE, val |-> <<>>, exc |-> OpenLocalWheel,
          store |-> mkdirs(store, remote_dir_name),
          calls |-> <<Call(backend, "mkdirs", remote_dir_name, FALSE)>>]
  ELSE [ok |-> TRUE, val |-> remote_wheel, exc |-> "",
        store |-> upload(mkdirs(store, remote_dir_name), remote_wheel,
                         LocalWheelContent, Overwrite, format).store,
        calls |-> <<Call(backend, "mkdirs", remote_dir_name, FALSE),
                    Call(backend, "upload", remote_wheel, Overwrite)>>]

\* The body shared by upload_to_dbfs and upload_to_wsfs: open the local wheel,
\* mkdirs the remote directory, upload with overwrite=True.
upload_to(store, backend, format) ==
  LET err == OpenLocalWheel
      made == mkdirs(store, remote_dir_name)
      put == upload(made, remote_wheel, LocalWheelContent, Overwrite, format)
      made_call == Call(backend, "mkdirs", remote_dir_name, FALSE)
      put_call == Call(backend, "upload", remote_wheel, Overwrite)
  IN IF err # ""
       THEN [ok |-> FALSE, val |-> <<>>, exc |-> err, store |-> store,
             calls |-> <<>>]
     ELSE IF ~put.ok
       THEN [ok |-> FALSE, val |-> <<>>, exc |-> "AlreadyExists",
             store |-> made, calls |-> <<made_call, put_call>>]
     ELSE [ok |-> TRUE, val |-> remote_wheel, exc |-> "", store |-> put.store,
           calls |-> <<made_call, put_call>>]

UploadReport(op, r, store) ==
  [Quiet EXCEPT !.op = op, !.ok = r.ok, !.val = r.val, !.exc = r.exc,
                !.calls = r.calls, !.existed = Exists(store, remote_wheel),
                !.changed = (r.store # store)]

\* Wheels.upload_to_dbfs()
UploadToDbfs ==
  /\ \E r \in {upload_to(dbfs, "dbfs", "")} :
       /\ dbfs' = r.store
       /\ last' = UploadReport("upload_to_dbfs", r, dbfs)
  /\ UNCHANGED <<attrs, released_version, wheels_version, local_wheel,
                 remote_wheel, remote_dir_name, install_folder, clock,
                 git_config, git_describe, root_marker, tmp, wsfs, pc>>

\* Wheels.upload_to_wsfs()
UploadToWsfs ==
  /\ \E r \in {upload_to(wsfs, "workspace", "AUTO")} :
       /\ wsfs' = r.store
       /\ last' = UploadReport("upload_to_wsfs", r, wsfs)
  /\ UNCHANGED <<attrs, released_version, wheels_version, local_wheel,
                 remote_wheel, remote_dir_name, install_folder, clock,
                 git_config, git_describe, root_marker, tmp, dbfs, pc>>

\* ------------------------------------------------------------ specification
Next ==
  \/ Version
  \/ VersionOfOther
  \/ Enter
  \/ Exit
  \/ UploadToDbfs
  \/ UploadToWsfs
  \/ Tick
  \/ GitChange

Spec == Init /\ [][Next]_vars


\* ------------------------------------------------------------------ claims
Uploads == {"upload_to_dbfs", "upload_to_wsfs"}
Plus == "+"

\* C1: at a project root without .git/config every version() call, the
\* caller's and the ones __enter__ makes while building, returns exactly
\* released_version and runs git not once.
C1_ReleasedVersionVerbatim ==
  ~git_config =>
    /\ last.op = "version" =>
         last.ok /\ last.val = released_version /\ last.git_calls = 0
    /\ last.op = "enter" =>
         last.tested = released_version /\ last.git_calls = 0

\* C1 witness: a released version with "+" comes back unchanged from an
\* instance that had computed a version while .git/config was still there.
C1_Witness ==
  /\ ~git_config
  /\ last.op = "version"
  /\ last.val = released_version
  /\ Contains(released_version, Plus)
  /\ hasattr(attrs, "_Wheels__version")

\* C2 (as claimed): once the instance has computed its version, which line 59
\* keeps in _Wheels__version, every later successful version() call returns
\* that same string, whatever the clock and the source control did meanwhile.
C2_VersionMemoized ==
  [][(hasattr(attrs, "_Wheels__version") /\ last'.op = "version" /\ last'.ok)
       => last'.val = wheels_version]_vars

C4_TmpDirGoneAfterFailedEnter ==
  (last.op = "enter" /\ ~last.ok) => ~tmp.exists

\* C5 (as claimed): when the body raises, that exception is the one the caller
\* gets from the with-statement, also when the deletion in __exit__ fails.
C5_BodyExceptionSurvives ==
  (last.op = "exit" /\ last.body_exc # "") => last.exc = last.body_exc

\* C6: inside the scope a successful upload returns
\* <install_folder>/wheels/<artifact file name>, has passed that path to
\* upload() and <install_folder>/wheels to mkdirs().
C6_RemotePath ==
  (pc = "body" /\ last.op \in Uploads /\ last.ok) =>
    LET wheels == install_folder \o <<"/", "w", "h", "e", "e", "l", "s">>
        path == wheels \o <<"/">> \o local_wheel
    IN /\ \E f \in tmp.files : f.name = local_wheel
       /\ last.val = path
       /\ Len(last.calls) = 2
       /\ last.calls[1].method = "mkdirs" /\ last.calls[1].path = wheels
       /\ last.calls[2].method = "upload" /\ last.calls[2].path = path

\* C6 witness: with an empty install folder, after the other backend was
\* served, upload_to_wsfs returned "/wheels/p.whl".
C6_Witness ==
  /\ pc = "body"
  /\ last.op = "upload_to_wsfs"
  /\ last.ok
  /\ install_folder = <<>>
  /\ last.val = <<"/", "w", "h", "e", "e", "l", "s", "/">> \o WheelP
  /\ Exists(dbfs, last.val)

\* C7: inside the scope every upload succeeds and is issued with overwrite,
\* and one that finds its path already uploaded leaves the remote store as
\* it was.
C7_UploadsRepeatable ==
  (pc = "body" /\ last.op \in Uploads) =>
    /\ last.ok
    /\ \A i \in 1..Len(last.calls) :
         last.calls[i].method = "upload" => last.calls[i].overwrite
    /\ last.existed => ~last.changed

\* C7 witness: a repeated upload_to_dbfs succeeded, after upload_to_wsfs had
\* been served as well.
C7_Witness ==
  /\ pc = "body"
  /\ last.op = "upload_to_dbfs"
  /\ last.ok
  /\ last.existed
  /\ Exists(wsfs, remote_wheel)

\* C8: when the version tested at line 109 has no "+", __enter__ copies no
\* tree and writes no marker, runs the packaging tool once, on the original
\* root, and leaves the original marker as it was.
C8_ReleasedBuildUntouched ==
  (last.op = "enter" /\ last.tested # <<>> /\ ~Contains(last.tested, Plus)) =>
    /\ ~last.copied
    /\ tmp.working_copy = NoTree
    /\ last.pip_roots = <<"original">>
    /\ \A f \in tmp.files : f.root = "original" /\ f.marker = OriginalMarker
    /\ root_marker = OriginalMarker

\* C8 witness: a build of released version "0.1.0" that gave a wheel.
C8_Witness ==
  /\ last.op = "enter"
  /\ last.ok
  /\ last.tested = <<"0", ".", "1", ".", "0">>
  /\ pc = "body"
  /\ tmp.files # {}

\* C9 (as claimed): a build that copied the tree leaves in the copy's marker
\* __version__ = "<v>", where v is the version tested for "+" at line 109, and
\* leaves the original marker as it was.
C9_MarkerHoldsResolvedVersion ==
  (last.op = "enter" /\ last.copied /\ last.ok) =>
    /\ tmp.working_copy.marker = MarkerLine(last.tested)
    /\ root_marker = OriginalMarker

\* C10 (as claimed): on the exact tag v1.2.3 version() returns "1.2.4+"
\* followed by exactly the 14 digits of the timestamp.
C10_ExactTagVersion ==
  (/\ last.op = "version"
   /\ last.ok
   /\ git_config
   /\ git_describe.stdout = <<"v", "1", ".", "2", ".", "3", "\n">>) =>
    LET at == Find(last.val, Plus)
        local == SubSeq(last.val, at + 1, Len(last.val))
    IN /\ SubSeq(last.val, 1, at) = <<"1", ".", "2", ".", "4", "+">>
       /\ Len(local) = 14
       /\ AllDigits(local)

\* The source control state on which lines 47-49 fail: git exits non-zero or
\* prints what is no semantic version.
DescribeUnusable ==
  git_config /\ (git_describe.rc # 0 \/ ~SemVerParse(git_describe.stdout).ok)

\* C11: with .git/config present and git failing or printing no semantic
\* version, version() raises OSError built from the original error, returns
\* nothing, stores nothing and has run git once; __enter__ fails the same way
\* before it copies a tree or runs the packaging tool.
C11_VersionFailureIsFatal ==
  DescribeUnusable =>
    /\ last.op = "version" =>
         /\ ~last.ok /\ last.exc = "OSError" /\ last.val = <<>>
         /\ last.cause \in {"CalledProcessError", "ValueError"}
         /\ last.git_calls = 1
    /\ last.op = "enter" =>
         /\ ~last.ok /\ last.exc = "OSError"
         /\ last.cause \in {"CalledProcessError", "ValueError"}
         /\ last.git_calls = 1
         /\ ~last.copied /\ last.pip_roots = <<>> /\ pc = "failed"

\* C11 witness: git printed "rel-1", version() raised OSError from the
\* ValueError of SemVer.parse.
C11_Witness ==
  /\ git_config
  /\ git_describe.rc = 0
  /\ ~SemVerParse(git_describe.stdout).ok
  /\ last.op = "version"
  /\ last.exc = "OSError"
  /\ last.cause = "ValueError"

\* "v1.2.9-2-g1a2b3c4\n": two commits after the tag v1.2.9.
TwoCommitsAfterTag ==
  <<"v", "1", ".", "2", ".", "9", "-", "2", "-", "g", "1", "a", "2", "b", "3",
    "c", "4", "\n">>

\* The 14 characters s read back as YYYYMMDDHHMMSS give the time now.
StampReads(s, now) ==
  /\ Len(s) = 14
  /\ AllDigits(s)
  /\ ParseInt(SubSeq(s, 1, 4)) = 2023
  /\ ParseInt(SubSeq(s, 5, 6)) = 11
  /\ ParseInt(SubSeq(s, 7, 8)) = 1 + (now \div 86400)
  /\ ParseInt(SubSeq(s, 9, 10)) * 3600 + ParseInt(SubSeq(s, 11, 12)) * 60
       + ParseInt(SubSeq(s, 13, 14)) = now % 86400
  /\ ParseInt(SubSeq(s, 9, 10)) < 24
  /\ ParseInt(SubSeq(s, 11, 12)) < 60
  /\ ParseInt(SubSeq(s, 13, 14)) < 60

\* C12: on the output v1.2.9-2-g1a2b3c4 version() returns "1.2.10+2" followed
\* by the 14-digit stamp of the clock at the call: major and minor of the tag,
\* its patch plus one, the commit count, the timestamp.
C12_CommitsAfterTagVersion ==
  (/\ last.op = "version"
   /\ git_config
   /\ git_describe.rc = 0
   /\ git_describe.stdout = TwoCommitsAfterTag) =>
    /\ last.ok
    /\ Len(last.val) = 22
    /\ SubSeq(last.val, 1, 8) = <<"1", ".", "2", ".", "1", "0", "+", "2">>
    /\ StampReads(SubSeq(last.val, 9, Len(last.val)), clock)

\* C12 witness: the call at 2023-11-02 00:00:00 returned
\* "1.2.10+220231102000000".
C12_Witness ==
  /\ last.op = "version"
  /\ git_config
  /\ git_describe.stdout = TwoCommitsAfterTag
  /\ clock = ClockStart + 1
  /\ last.val = <<"1", ".", "2", ".", "1", "0", "+", "2", "2", "0", "2", "3",
                  "1", "1", "0", "2", "0", "0", "0", "0", "0", "0">>

\* The backend each upload operation is written against.
BackendOf(op) == IF op = "upload_to_dbfs" THEN "dbfs" ELSE "workspace"

\* The remote calls of the last step, when it was an upload operation: all on
\* the operation's backend, a mkdirs first, and each upload right after a
\* mkdirs of the directory that holds the uploaded path.
CallsInOrder ==
  last.op \in Uploads =>
    /\ \A i \in 1..Len(last.calls) :
         /\ last.calls[i].backend = BackendOf(last.op)
         /\ last.calls[i].method \in {"mkdirs", "upload"}
         /\ last.calls[i].method = "upload" =>
              /\ i > 1
              /\ last.calls[i - 1].method = "mkdirs"
              /\ last.calls[i].path =
                   last.calls[i - 1].path \o <<"/">> \o local_wheel
              /\ ~Contains(local_wheel, "/")
    /\ last.ok => Len(last.calls) = 2 /\ last.calls[2].method = "upload"
    /\ last.exc \in {"AttributeError", "FileNotFoundError"} =>
         last.calls = <<>>

\* C13: an upload operation opens the local artifact, then calls mkdirs on the
\* remote parent directory, then upload on the remote path, all on its own
\* backend, and leaves the store of the other backend as it was.
C13_UploadCallOrder ==
  [][/\ CallsInOrder'
     /\ last'.op = "upload_to_dbfs" => wsfs' = wsfs
     /\ last'.op = "upload_to_wsfs" => dbfs' = dbfs]_vars

\* C13 witness: upload_to_wsfs made its two calls on the workspace backend
\* while the dbfs store was still empty.
C13_Witness ==
  /\ last.op = "upload_to_wsfs"
  /\ last.ok
  /\ Len(last.calls) = 2
  /\ last.calls[1].backend = "workspace"
  /\ last.calls[1].method = "mkdirs"
  /\ last.calls[2].method = "upload"
  /\ dbfs = EmptyStore
  /\ wsfs # EmptyStore

\* No local artifact: the scope was not entered, __enter__ failed, or the
\* scope was exited and the temporary directory deleted.
NoLocalArtifact ==
  pc \in {"new", "failed"} \/ (pc = "exited" /\ ~tmp.exists)

\* C14: without a local artifact an upload operation fails with an error,
\* calls neither mkdirs nor upload, and leaves both remote stores as they were.
C14_NoArtifactNoRemoteCall ==
  [][(NoLocalArtifact /\ last'.op \in Uploads) =>
       /\ ~last'.ok
       /\ last'.exc \in {"AttributeError", "FileNotFoundError"}
       /\ last'.calls = <<>>
       /\ dbfs' = dbfs
       /\ wsfs' = wsfs]_vars

\* C14 witness: after an upload inside the scope and the exit that deleted
\* the directory, upload_to_dbfs failed on opening the file.
C14_Witness ==
  /\ pc = "exited"
  /\ ~tmp.exists
  /\ last.op = "upload_to_dbfs"
  /\ last.exc = "FileNotFoundError"
  /\ dbfs # EmptyStore

\* The attributes __enter__ assigns after _build_wheel has returned.
ArtifactAttrs == {"_local_wheel", "_remote_wheel", "_remote_dir_name"}

\* C15: __enter__ runs the packaging tool at most once; when that run exits
\* non-zero, __enter__ raises its CalledProcessError, the instance has no
\* artifact reference and no remote path, and no remote call was made.
C15_PipFailureIsFatal ==
  last.op = "enter" =>
    /\ Len(last.pip_roots) <= 1
    /\ Len(last.pip_rcs) = Len(last.pip_roots)
    /\ (last.pip_rcs # <<>> /\ last.pip_rcs[1] # 0) =>
         /\ ~last.ok
         /\ last.exc = "CalledProcessError"
         /\ pc = "failed"
         /\ \A n \in ArtifactAttrs : ~hasattr(attrs, n)
         /\ local_wheel = <<>> /\ remote_wheel = <<>> /\ remote_dir_name = <<>>
         /\ last.calls = <<>>
         /\ dbfs = EmptyStore /\ wsfs = EmptyStore

\* C15 witness: the packaging tool, run on the patched working copy, exited
\* non-zero and __enter__ raised.
C15_Witness ==
  /\ last.op = "enter"
  /\ last.pip_roots = <<"working-copy">>
  /\ last.pip_rcs = <<1>>
  /\ last.exc = "CalledProcessError"
  /\ tmp.working_copy.exists

DotWhl == <<".", "w", "h", "l">>

\* C16: __enter__ either raises and leaves the instance without an artifact,
\* or returns with _local_wheel naming a .whl file directly inside the
\* temporary directory; a packaging tool that exits zero and leaves no .whl
\* makes it raise; and while the caller is inside the scope that file is
\* there, in the existing temporary directory.
C16_NoPartialSuccess ==
  /\ last.op = "enter" =>
       /\ last.ok <=> pc = "body"
       /\ ~last.ok =>
            pc = "failed" /\ \A n \in ArtifactAttrs : ~hasattr(attrs, n)
       /\ (/\ last.pip_rcs = <<0>>
           /\ ~\E f \in tmp.files : EndsWith(f.name, DotWhl)) =>
            ~last.ok /\ last.exc = "StopIteration"
  /\ pc = "body" =>
       /\ tmp.exists
       /\ \A n \in ArtifactAttrs : hasattr(attrs, n)
       /\ EndsWith(local_wheel, DotWhl)
       /\ ~Contains(local_wheel, "/")
       /\ \E f \in tmp.files : f.name = local_wheel

\* C16 witness: inside the scope, after an upload, the artifact is q.whl, the
\* one the enumeration gave first of the two wheel files in the directory.
C16_Witness ==
  /\ pc = "body"
  /\ last.op \in Uploads
  /\ local_wheel = WheelQ
  /\ \E f, g \in tmp.files : f.name = WheelP /\ g.name = WheelQ

\* C17: with .git/config present every version that version() returns holds
\* a "+", and every run of the packaging tool that __enter__ makes is on the
\* working copy; a run on the original root happens only without .git/config.
C17_CheckoutBuildsFromWorkingCopy ==
  /\ (last.op = "version" /\ git_config /\ last.ok) =>
       Contains(last.val, Plus)
  /\ (last.op = "enter" /\ git_config) =>
       /\ last.tested # <<>> => Contains(last.tested, Plus)
       /\ \A i \in 1..Len(last.pip_roots) :
            last.pip_roots[i] = "working-copy"
       /\ \A f \in tmp.files : f.root = "working-copy"
  /\ (last.op = "enter"
        /\ \E i \in 1..Len(last.pip_roots) : last.pip_roots[i] = "original") =>
       ~git_config

\* C17 witness: on a checkout at an exact tag __enter__ built the wheel from
\* the working copy.
C17_Witness ==
  /\ last.op = "enter"
  /\ last.ok
  /\ git_config
  /\ git_describe.stdout = <<"v", "1", ".", "2", ".", "3", "\n">>
  /\ last.pip_roots = <<"working-copy">>
  /\ \E f \in tmp.files : f.name = local_wheel /\ f.root = "working-copy"

\* A version() call of either instance.
Resolutions == {"version", "other.version"}

\* The last 14 characters of a computed version: its timestamp.
StampOf(v) == SubSeq(v, Len(v) - 13, Len(v))

\* Order of two stamps of 14 digits, most significant digit first.
StampLess(s, t) ==
  \E i \in 1..14 :
    /\ SubSeq(s, 1, i - 1) = SubSeq(t, 1, i - 1)
    /\ DigitValue(s[i]) < DigitValue(t[i])

\* C18 (as claimed): when the first instance and then a second instance
\* resolve the version on the same source control state, one right after the
\* other, the second gets a different string with a greater timestamp.
C18_VersionsUniqueAndIncreasing ==
  [][(/\ git_config
      /\ last.op \in Resolutions /\ last.ok
      /\ last'.op = "other.version" /\ last'.ok) =>
       /\ last'.val # last.val
       /\ StampLess(StampOf(last.val), StampOf(last'.val))]_vars

====
